---- MODULE Spec2Model ----
(***************************************************************************)
(* A model of the storage engine of redis-clone (package storage): ten     *)
(* independently locked databases, each a map from key to Entry, and the   *)
(* operations of Storage / Database on them, run by concurrent goroutines. *)
(*                                                                         *)
(* A goroutine is a thread of the model.  A critical section of the code   *)
(* is two steps: the step that acquires d.mu (RLock or Lock) and the step  *)
(* that does the section's work and releases the lock.  Which locks are    *)
(* held is therefore a function of the program counters (Writers,          *)
(* Readers).  Code that runs outside any lock is a step of its own.        *)
(***************************************************************************)
EXTENDS Integers, Sequences, FiniteSets, TLC

(***************************************************************************)
(* Bounds of the model.                                                    *)
(***************************************************************************)
MaxCalls == 4
MaxTime == 3
MaxLen == 5
\* the calls made in the runs on two databases, and in those with every operation
MaxIsoCalls == 3
MaxAllCalls == 2
\* the calls made in the runs of the pops
MaxPopCalls == 3
\* the calls made in a run of SpecTyped
MaxTypedCalls == 3
\* the calls made in a run of SpecExp
MaxExpCalls == 3
\* the calls made in a run of SpecPush
MaxPushCalls == 3

Threads == {1, 2}
Keys == {"k"}
Vals == {"a", "b"}
TTLs == {-1, 0, 1}
\* the databases the callers address, and the indices they pass that name none:
\* a negative one and N itself
UsedDBs == {0, 1}
BadDBs == {-1, 10}

\* the batches pushed, the range arguments (strings, as sequences of characters)
Batches == {<<>>, <<"a">>, <<"x", "y">>, <<"a", "b", "c">>}
RangeArgs == {<<"0">>, <<"2">>, <<"-", "1">>, <<"-", "7">>, <<"x">>}

\* the counts popped, the timeouts of the blocking pops (seconds)
PopCounts == {-1, 0, 1, 2}
Timeouts == {0, 1}

\* the IDs given to XAdd ("" asks for a generated one), its field-value pairs,
\* and the bounds given to XRange
StreamIDs == {<<>>, <<"2", "0", "0", "0", "-", "0">>, <<"x">>}
Pairs == {<<<<"f", "v">>>>}
StreamArgs == {<<"-">>, <<"+">>, <<"1", "0", "0", "0">>, <<"2", "0", "0", "0">>}

(***************************************************************************)
(* Program constants.                                                      *)
(***************************************************************************)
NumDB == 10
TypeString == 0
TypeList == 1
TypeStream == 2

DBs == 0 .. (NumDB - 1)

\* mutant: every index names one and the same Database
DatabaseShared(db) == 0

\* s.databases[db] for a valid index: NewStorage makes a Database of its own for
\* each index, here named by that index
DatabaseOf(db) == db

VARIABLES
    data,       \* data[db]: the map d.data of database db (a function on the keys present)
    now,        \* the wall clock, read by time.Now()
    crashed,    \* the process has died (a panic nobody recovers)
    pc,         \* pc[t]: where goroutine t stands
    call,       \* call[t]: the arguments of the operation t is running
    loc,        \* loc[t]: the local variables of that operation
    res,        \* res[t]: what the last operation of t returned
    calls,      \* operations started so far
    hist        \* history of the run, read by the properties only:
                \*   fresh[db][k]  the Entry of the last Set of k in db, until another
                \*                 operation writes or deletes k (None then and before)
                \*   ones[db][k]   Del calls on k that returned 1 since k was last written
                \*   dirty[t]      a writer has run since t's Flush call began
                \*   wrote[db]     the keys that operations addressed to db have written

vars == <<data, now, crashed, pc, call, loc, res, calls, hist>>

(***************************************************************************)
(* Values.                                                                 *)
(***************************************************************************)
\* time.Time{}: the zero instant, for which IsZero() holds
ZeroTime == 0

\* the zero Entry, which a lookup of a missing key yields
ZeroEntry ==
    [Type |-> TypeString, String |-> "", List |-> <<>>, Streams |-> <<>>, Expiry |-> ZeroTime]

\* make(map[string]Entry)
EmptyMap == [k \in {} |-> ZeroEntry]

None == [none |-> TRUE]

\* entry, ok := d.data[key]
Has(m, k) == k \in DOMAIN m
Lookup(m, k) == IF Has(m, k) THEN m[k] ELSE ZeroEntry

\* d.data[key] = e
Store(m, k, e) == [x \in (DOMAIN m) \cup {k} |-> IF x = k THEN e ELSE m[x]]

\* delete(d.data, key)
Delete(m, k) == [x \in (DOMAIN m) \ {k} |-> m[x]]

(***************************************************************************)
(* Goroutines: arguments, locals, results.                                 *)
(***************************************************************************)
NoCall ==
    [op |-> "none", key |-> "", db |-> 0, val |-> "", exp |-> 0, items |-> <<>>,
     count |-> 0, from |-> <<>>, to |-> <<>>, timeout |-> 0, id |-> <<>>, pairs |-> <<>>]

NoLoc ==
    [entry |-> ZeroEntry, ok |-> FALSE, pending |-> {}, cur |-> {}, count |-> 0,
     deadline |-> ZeroTime, id |-> <<>>]

\* err = "" is a nil error; nil tells a nil pointer / nil slice from a value
NoRes ==
    [op |-> "none", key |-> "", db |-> 0, err |-> "", nil |-> FALSE,
     entry |-> ZeroEntry, n |-> 0, s |-> "", l |-> <<>>]

ResultOf(c) == [NoRes EXCEPT !.op = c.op, !.key = c.key, !.db = c.db]

\* fmt.Errorf("invalid database %d", db)
ErrInvalidDB == "invalid database"
\* a nil-pointer dereference that nothing recovers
Panic == "panic"

(***************************************************************************)
(* The RWMutex d.mu of each database, read off the program counters.       *)
(***************************************************************************)
WriterPCs ==
    {"set_body", "get_del", "del_body", "flush_body", "rpush_body", "lpush_body",
     "lpop_body", "rpop_body", "bpop_body"}
\* mutant: the read lock of a blocking pop is kept through its sleep
ReaderPCsAsleep ==
    {"get_read", "del_read", "rlen_read", "lrange_read", "rrange_read", "bpop_read",
     "type_read", "xrange_read", "bpop_check", "bpop_poll"}

ReaderPCs ==
    {"get_read", "del_read", "rlen_read", "lrange_read", "rrange_read", "bpop_read",
     "type_read", "xrange_read"}

LockDBs(t) == IF pc[t] = "flush_body" THEN loc[t].cur ELSE {DatabaseOf(call[t].db)}
Writers(d) == {t \in Threads : pc[t] \in WriterPCs /\ d \in LockDBs(t)}
Readers(d) == {t \in Threads : pc[t] \in ReaderPCs /\ d \in LockDBs(t)}

\* d.mu.Lock() returns
CanLock(d) == Writers(d) = {} /\ Readers(d) = {}
\* d.mu.RLock() returns
CanRLock(d) == Writers(d) = {}

(***************************************************************************)
(* The history variable.                                                   *)
(***************************************************************************)
FlushPCs == {"flush_next", "flush_body"}

Dirtied == [t \in Threads |-> hist.dirty[t] \/ pc[t] \in FlushPCs]

\* what a Set called with c asks for at the instant it is applied
Asked(c) ==
    [Type |-> 0, String |-> c.val, List |-> <<>>, Streams |-> <<>>,
     Expiry |-> IF c.exp > 0 THEN now + c.exp ELSE 0]

\* the Set called with c was applied
HistSet(d, k, c) ==
    [fresh |-> [hist.fresh EXCEPT ![d][k] = Asked(c)],
     ones |-> [hist.ones EXCEPT ![d][k] = 0],
     dirty |-> Dirtied,
     wrote |-> [hist.wrote EXCEPT ![d] = @ \cup {k}]]

\* another operation wrote k in d
HistWrite(d, k) ==
    [fresh |-> [hist.fresh EXCEPT ![d][k] = None],
     ones |-> [hist.ones EXCEPT ![d][k] = 0],
     dirty |-> Dirtied,
     wrote |-> [hist.wrote EXCEPT ![d] = @ \cup {k}]]

\* an operation deleted k in d; one = 1 when it is a Del returning 1
HistRemove(d, k, one) ==
    [hist EXCEPT !.fresh[d][k] = None, !.ones[d][k] = @ + one]

\* Flush replaced the maps of the databases in b
HistFlush(b) ==
    [hist EXCEPT !.fresh = [d \in DBs |-> IF d \in b THEN [k \in Keys |-> None] ELSE @[d]]]

(***************************************************************************)
(* Calls and returns.                                                      *)
(***************************************************************************)
Idle(t) == ~crashed /\ pc[t] = "idle" /\ calls < MaxCalls
At(t, p) == ~crashed /\ pc[t] = p

\* the call of c enters the operation at p
Begin(t, c, p) ==
    /\ pc' = [pc EXCEPT ![t] = p]
    /\ call' = [call EXCEPT ![t] = c]
    /\ res' = [res EXCEPT ![t] = NoRes]
    /\ calls' = calls + 1

\* the call of c returns r at once
Reject(t, r) ==
    /\ res' = [res EXCEPT ![t] = r]
    /\ calls' = calls + 1
    /\ UNCHANGED <<pc, call>>

Goto(t, p) ==
    /\ pc' = [pc EXCEPT ![t] = p]
    /\ UNCHANGED <<call, res, calls>>

Return(t, r) ==
    /\ pc' = [pc EXCEPT ![t] = "idle"]
    /\ call' = [call EXCEPT ![t] = NoCall]
    /\ res' = [res EXCEPT ![t] = r]
    /\ UNCHANGED calls

\* s.databases[db] after the check "db >= 10": the database, or the nil pointer
\* the map yields for an index it does not hold
Route(db) == IF db >= NumDB THEN "invalid" ELSE IF db \in DBs THEN "ok" ELSE "nil"

\* the call dereferences a nil *Database: the process panics
Crash(t, c) ==
    /\ crashed' = TRUE
    /\ res' = [res EXCEPT ![t] = [ResultOf(c) EXCEPT !.err = Panic]]
    /\ calls' = calls + 1
    /\ UNCHANGED <<data, now, pc, call, loc, hist>>

(***************************************************************************)
(* Expiry.                                                                 *)
(***************************************************************************)
\* mutant: the expiry is set whatever the sign of exp
ExpiryOfAlways(exp) == now + exp

\* expiry := time.Time{}; if exp > 0 { expiry = time.Now().Add(exp) }
ExpiryOf(exp) == IF exp > 0 THEN now + exp ELSE ZeroTime

\* mutant: the comparison with the clock is turned around
IsExpiredBefore(e) == e.Expiry # ZeroTime /\ now < e.Expiry

\* !entry.Value.Expiry.IsZero() && time.Now().After(entry.Value.Expiry)
IsExpired(e) == e.Expiry # ZeroTime /\ now > e.Expiry

StringEntry(val, expiry) ==
    [Type |-> TypeString, String |-> val, List |-> <<>>, Streams |-> <<>>, Expiry |-> expiry]

(***************************************************************************)
(* Set                                                                     *)
(***************************************************************************)
CallSet(t, D) ==
    /\ Idle(t)
    /\ \E k \in Keys, v \in Vals, ttl \in TTLs, db \in D :
        LET c == [NoCall EXCEPT !.op = "Set", !.key = k, !.db = db, !.val = v, !.exp = ttl] IN
        CASE Route(db) = "invalid" ->
                /\ Reject(t, [ResultOf(c) EXCEPT !.err = ErrInvalidDB])
                /\ UNCHANGED <<data, now, crashed, loc, hist>>
          [] Route(db) = "nil" -> Crash(t, c)
          [] OTHER ->
                /\ CanLock(DatabaseOf(db))
                /\ Begin(t, c, "set_body")
                /\ UNCHANGED <<data, now, crashed, loc, hist>>

SetBody(t) ==
    /\ At(t, "set_body")
    /\ LET c == call[t]
           e == StringEntry(c.val, ExpiryOf(c.exp)) IN
        /\ data' = [data EXCEPT ![DatabaseOf(c.db)] = Store(@, c.key, e)]
        /\ hist' = HistSet(c.db, c.key, c)
        /\ Return(t, ResultOf(c))
    /\ UNCHANGED <<now, crashed, loc>>

(***************************************************************************)
(* Get                                                                     *)
(***************************************************************************)
CallGet(t, D) ==
    /\ Idle(t)
    /\ \E k \in Keys, db \in D :
        LET c == [NoCall EXCEPT !.op = "Get", !.key = k, !.db = db] IN
        CASE Route(db) = "invalid" ->
                /\ Reject(t, [ResultOf(c) EXCEPT !.err = ErrInvalidDB, !.nil = TRUE])
                /\ UNCHANGED <<data, now, crashed, loc, hist>>
          [] Route(db) = "nil" -> Crash(t, c)
          [] OTHER ->
                /\ CanRLock(DatabaseOf(db))
                /\ Begin(t, c, "get_read")
                /\ UNCHANGED <<data, now, crashed, loc, hist>>

\* entry, ok := d.data[key] under the read lock; a missing key returns nil
GetRead(t) ==
    /\ At(t, "get_read")
    /\ LET c == call[t]
           m == data[DatabaseOf(c.db)] IN
        IF Has(m, c.key)
        THEN /\ loc' = [loc EXCEPT ![t].entry = m[c.key]]
             /\ Goto(t, "get_check")
        ELSE /\ Return(t, [ResultOf(c) EXCEPT !.nil = TRUE])
             /\ UNCHANGED loc
    /\ UNCHANGED <<data, now, crashed, hist>>

\* the expiry test on the copy read, then d.mu.Lock() or return &entry
GetCheck(t) ==
    /\ At(t, "get_check")
    /\ LET c == call[t] IN
        IF IsExpired(loc[t].entry)
        THEN /\ CanLock(DatabaseOf(c.db))
             /\ Goto(t, "get_del")
             /\ UNCHANGED loc
        ELSE /\ Return(t, [ResultOf(c) EXCEPT !.entry = loc[t].entry])
             /\ loc' = [loc EXCEPT ![t] = NoLoc]
    /\ UNCHANGED <<data, now, crashed, hist>>

\* delete(d.data, key) under the write lock; return nil
GetDel(t) ==
    /\ At(t, "get_del")
    /\ LET c == call[t] IN
        /\ data' = [data EXCEPT ![DatabaseOf(c.db)] = Delete(@, c.key)]
        /\ Return(t, [ResultOf(c) EXCEPT !.nil = TRUE])
    /\ loc' = [loc EXCEPT ![t] = NoLoc]
    /\ UNCHANGED <<now, crashed, hist>>

(***************************************************************************)
(* Del                                                                     *)
(***************************************************************************)
CallDel(t, D) ==
    /\ Idle(t)
    /\ \E k \in Keys, db \in D :
        LET c == [NoCall EXCEPT !.op = "Del", !.key = k, !.db = db] IN
        CASE Route(db) = "invalid" ->
                /\ Reject(t, ResultOf(c))
                /\ UNCHANGED <<data, now, crashed, loc, hist>>
          [] Route(db) = "nil" -> Crash(t, c)
          [] OTHER ->
                /\ CanRLock(DatabaseOf(db))
                /\ Begin(t, c, "del_read")
                /\ UNCHANGED <<data, now, crashed, loc, hist>>

\* _, ok := d.data[key] under the read lock; a missing key returns 0
DelRead(t) ==
    /\ At(t, "del_read")
    /\ LET c == call[t] IN
        IF Has(data[DatabaseOf(c.db)], c.key)
        THEN Goto(t, "del_lock")
        ELSE Return(t, ResultOf(c))
    /\ UNCHANGED <<data, now, crashed, loc, hist>>

DelLock(t) ==
    /\ At(t, "del_lock")
    /\ CanLock(DatabaseOf(call[t].db))
    /\ Goto(t, "del_body")
    /\ UNCHANGED <<data, now, crashed, loc, hist>>

\* delete(d.data, key) under the write lock; return 1
DelBody(t) ==
    /\ At(t, "del_body")
    /\ LET c == call[t] IN
        /\ data' = [data EXCEPT ![DatabaseOf(c.db)] = Delete(@, c.key)]
        /\ hist' = HistRemove(c.db, c.key, 1)
        /\ Return(t, [ResultOf(c) EXCEPT !.n = 1])
    /\ UNCHANGED <<now, crashed, loc>>

(***************************************************************************)
(* Flush                                                                   *)
(***************************************************************************)
\* mutant: the snapshot misses a database
FlushSnapshotShort == DBs \ {1}

\* the snapshot dbs of s.databases, taken under s.mu.RLock()
FlushSnapshot == DBs

\* The range over the snapshot locks and empties one database at a time, in an
\* order the runtime picks.  The databases no caller addresses are always empty
\* and never locked by another goroutine: Flush's steps on them are invisible to
\* every other goroutine, so they are taken as one batch, at any point of the range.
FlushBatches(pending) ==
    {{d} : d \in pending \cap UsedDBs} \cup
    (IF pending \ UsedDBs = {} THEN {} ELSE {pending \ UsedDBs})

CallFlush(t) ==
    /\ Idle(t)
    /\ Begin(t, [NoCall EXCEPT !.op = "Flush"], "flush_next")
    /\ loc' = [loc EXCEPT ![t].pending = FlushSnapshot]
    /\ hist' = [hist EXCEPT !.dirty[t] = FALSE]
    /\ UNCHANGED <<data, now, crashed>>

\* db.mu.Lock() on the next database of the snapshot
FlushLock(t) ==
    /\ At(t, "flush_next")
    /\ \E b \in FlushBatches(loc[t].pending) :
        /\ \A d \in b : CanLock(d)
        /\ loc' = [loc EXCEPT ![t].cur = b]
    /\ Goto(t, "flush_body")
    /\ UNCHANGED <<data, now, crashed, hist>>

\* db.data = make(map[string]Entry); db.mu.Unlock()
FlushBody(t) ==
    /\ At(t, "flush_body")
    /\ LET b == loc[t].cur
           rest == loc[t].pending \ b IN
        /\ data' = [d \in DBs |-> IF d \in b THEN EmptyMap ELSE data[d]]
        /\ hist' = HistFlush(b)
        /\ IF rest = {}
           THEN /\ Return(t, ResultOf(call[t]))
                /\ loc' = [loc EXCEPT ![t] = NoLoc]
           ELSE /\ Goto(t, "flush_next")
                /\ loc' = [loc EXCEPT ![t] = [NoLoc EXCEPT !.pending = rest]]
    /\ UNCHANGED <<now, crashed>>

(***************************************************************************)
(* Strings, integers, slices.                                              *)
(***************************************************************************)
DigitChars == <<"0", "1", "2", "3", "4", "5", "6", "7", "8", "9">>
IsDigit(c) == \E i \in 1 .. 10 : DigitChars[i] = c
DigitVal(c) == (CHOOSE i \in 1 .. 10 : DigitChars[i] = c) - 1

RECURSIVE DigitsVal(_)
DigitsVal(s) ==
    IF s = <<>> THEN 0 ELSE 10 * DigitsVal(SubSeq(s, 1, Len(s) - 1)) + DigitVal(s[Len(s)])

\* mutant: the error of the conversion is dropped
AtoiUnchecked(s) == [ok |-> TRUE, val |-> 0]

\* strconv.Atoi / strconv.ParseInt(s, 10, 64): an optional sign, then one or
\* more decimal digits (the inputs of the model stay far inside 64 bits)
Atoi(s) ==
    LET signed == s # <<>> /\ s[1] \in {"+", "-"}
        digits == IF signed THEN Tail(s) ELSE s IN
    IF digits = <<>> \/ \E i \in 1 .. Len(digits) : ~IsDigit(digits[i])
    THEN [ok |-> FALSE, val |-> 0]
    ELSE [ok |-> TRUE,
          val |-> IF s[1] = "-" THEN 0 - DigitsVal(digits) ELSE DigitsVal(digits)]

\* strings.Join(list, ",")
RECURSIVE Join(_)
Join(list) ==
    IF list = <<>> THEN ""
    ELSE IF Len(list) = 1 THEN list[1]
    ELSE list[1] \o "," \o Join(Tail(list))

\* list[lo:hi] is in range (taking the capacity of a stored list for its length)
SliceOk(list, lo, hi) == 0 <= lo /\ lo <= hi /\ hi <= Len(list)
\* list[lo:hi], with Go's indices from 0
Slice(list, lo, hi) == SubSeq(list, lo + 1, hi)

ListEntry(list) ==
    [Type |-> TypeList, String |-> "", List |-> list, Streams |-> <<>>, Expiry |-> ZeroTime]

IsList(m, k) == Has(m, k) /\ m[k].Type = TypeList

(***************************************************************************)
(* RPush, LPush, RLen                                                      *)
(***************************************************************************)
\* mutant: a push keeps a value of another kind and adds to its List field
PushBaseKept(m, k) == IF Has(m, k) THEN m[k] ELSE ListEntry(<<>>)

\* mutant: every push starts from a fresh list
PushBaseFresh(m, k) == ListEntry(<<>>)

\* the list a push sees: that of the key, or a fresh one when the key is
\* absent or no List
PushBase(m, k) == IF IsList(m, k) THEN m[k] ELSE ListEntry(<<>>)

\* mutant: the batch goes to the head
RPushedHead(list, items) == items \o list

\* append(entry.Value.List, items...)
RPushed(list, items) == list \o items

\* mutant: the batch is pushed one item at a time, each to the head
RECURSIVE LPushedReversed(_, _)
LPushedReversed(list, items) ==
    IF items = <<>> THEN list ELSE LPushedReversed(<<items[1]>> \o list, Tail(items))

\* append(items, entry.Value.List...)
LPushed(list, items) == items \o list

CallPush(t, D, op, p) ==
    /\ Idle(t)
    /\ \E k \in Keys, items \in Batches, db \in D :
        LET c == [NoCall EXCEPT !.op = op, !.key = k, !.db = db, !.items = items] IN
        CASE Route(db) = "invalid" ->
                /\ Reject(t, [ResultOf(c) EXCEPT !.err = ErrInvalidDB])
                /\ UNCHANGED <<data, now, crashed, loc, hist>>
          [] Route(db) = "nil" -> Crash(t, c)
          [] OTHER ->
                /\ CanLock(DatabaseOf(db))
                /\ Len(PushBase(data[DatabaseOf(db)], k).List) + Len(items) <= MaxLen
                /\ Begin(t, c, p)
                /\ UNCHANGED <<data, now, crashed, loc, hist>>

CallRPush(t, D) == CallPush(t, D, "RPush", "rpush_body")
CallLPush(t, D) == CallPush(t, D, "LPush", "lpush_body")

RPushBody(t) ==
    /\ At(t, "rpush_body")
    /\ LET c == call[t]
           base == PushBase(data[DatabaseOf(c.db)], c.key)
           entry == [base EXCEPT !.List = RPushed(base.List, c.items)] IN
        /\ data' = [data EXCEPT ![DatabaseOf(c.db)] = Store(@, c.key, entry)]
        /\ hist' = HistWrite(c.db, c.key)
        /\ Return(t, [ResultOf(c) EXCEPT !.n = Len(entry.List)])
    /\ UNCHANGED <<now, crashed, loc>>

LPushBody(t) ==
    /\ At(t, "lpush_body")
    /\ LET c == call[t]
           base == PushBase(data[DatabaseOf(c.db)], c.key)
           entry == [base EXCEPT !.List = LPushed(base.List, c.items)] IN
        /\ data' = [data EXCEPT ![DatabaseOf(c.db)] = Store(@, c.key, entry)]
        /\ hist' = HistWrite(c.db, c.key)
        /\ Return(t, [ResultOf(c) EXCEPT !.n = Len(entry.List)])
    /\ UNCHANGED <<now, crashed, loc>>

CallRLen(t, D) ==
    /\ Idle(t)
    /\ \E k \in Keys, db \in D :
        LET c == [NoCall EXCEPT !.op = "RLen", !.key = k, !.db = db] IN
        CASE Route(db) = "invalid" ->
                /\ Reject(t, [ResultOf(c) EXCEPT !.err = ErrInvalidDB])
                /\ UNCHANGED <<data, now, crashed, loc, hist>>
          [] Route(db) = "nil" -> Crash(t, c)
          [] OTHER ->
                /\ CanRLock(DatabaseOf(db))
                /\ Begin(t, c, "rlen_read")
                /\ UNCHANGED <<data, now, crashed, loc, hist>>

RLenRead(t) ==
    /\ At(t, "rlen_read")
    /\ LET c == call[t]
           m == data[DatabaseOf(c.db)] IN
        Return(t, [ResultOf(c) EXCEPT !.n = IF IsList(m, c.key) THEN Len(m[c.key].List) ELSE 0])
    /\ UNCHANGED <<data, now, crashed, loc, hist>>

(***************************************************************************)
(* LRange, RRange                                                          *)
(***************************************************************************)
\* the indices after "if from < 0 { from += n }", "if to < 0 { to += n }",
\* "if from < 0 { from = 0 }", "if to >= n { to = n - 1 }"
RangeFrom(n, from) ==
    LET f == IF from < 0 THEN from + n ELSE from IN IF f < 0 THEN 0 ELSE f

\* mutant: "to" is not clamped to the list
RangeToUnclamped(n, to) == IF to < 0 THEN to + n ELSE to

RangeTo(n, to) ==
    LET u == IF to < 0 THEN to + n ELSE to IN IF u >= n THEN n - 1 ELSE u

\* the body of Database.RRange on a stored list: the string returned, or a
\* slice out of range (a panic)
RRangeOf(list, from, to) ==
    LET n == Len(list)
        f == RangeFrom(n, from)
        u == RangeTo(n, to) IN
    IF f > u THEN [panic |-> FALSE, s |-> ""]
    ELSE IF ~SliceOk(list, f, u + 1) THEN [panic |-> TRUE, s |-> ""]
    ELSE [panic |-> FALSE, s |-> Join(Slice(list, f, u + 1))]

\* the body of Database.LRange: as RRange, after "if n == 0 { return }"
LRangeOf(list, from, to) ==
    IF Len(list) = 0 THEN [panic |-> FALSE, s |-> ""] ELSE RRangeOf(list, from, to)

\* Storage.LRange / Storage.RRange: the database check, then Atoi of from and of
\* to, then the database's read lock
CallRange(t, D, op, p) ==
    /\ Idle(t)
    /\ \E k \in Keys, from \in RangeArgs, to \in RangeArgs, db \in D :
        LET c == [NoCall EXCEPT !.op = op, !.key = k, !.db = db, !.from = from, !.to = to] IN
        CASE Route(db) = "invalid" ->
                /\ Reject(t, [ResultOf(c) EXCEPT !.err = ErrInvalidDB])
                /\ UNCHANGED <<data, now, crashed, loc, hist>>
          [] Route(db) # "invalid" /\ ~Atoi(from).ok ->
                /\ Reject(t, [ResultOf(c) EXCEPT !.err = "invalid from range"])
                /\ UNCHANGED <<data, now, crashed, loc, hist>>
          [] Route(db) # "invalid" /\ Atoi(from).ok /\ ~Atoi(to).ok ->
                /\ Reject(t, [ResultOf(c) EXCEPT !.err = "invalid to range"])
                /\ UNCHANGED <<data, now, crashed, loc, hist>>
          [] Route(db) = "nil" /\ Atoi(from).ok /\ Atoi(to).ok -> Crash(t, c)
          [] OTHER ->
                /\ CanRLock(DatabaseOf(db))
                /\ Begin(t, c, p)
                /\ UNCHANGED <<data, now, crashed, loc, hist>>

CallLRange(t, D) == CallRange(t, D, "LRange", "lrange_read")
CallRRange(t, D) == CallRange(t, D, "RRange", "rrange_read")

\* the read section of LRange / RRange, r the result of its body on the list
RangeRead(t, r) ==
    IF r.panic
    THEN /\ crashed' = TRUE
         /\ res' = [res EXCEPT ![t] = [ResultOf(call[t]) EXCEPT !.err = Panic]]
         /\ UNCHANGED <<data, now, pc, call, loc, calls, hist>>
    ELSE /\ Return(t, [ResultOf(call[t]) EXCEPT !.s = r.s])
         /\ UNCHANGED <<data, now, crashed, loc, hist>>

LRangeRead(t) ==
    /\ At(t, "lrange_read")
    /\ LET c == call[t]
           m == data[DatabaseOf(c.db)] IN
        RangeRead(t, IF IsList(m, c.key)
                     THEN LRangeOf(m[c.key].List, Atoi(c.from).val, Atoi(c.to).val)
                     ELSE [panic |-> FALSE, s |-> ""])

RRangeRead(t) ==
    /\ At(t, "rrange_read")
    /\ LET c == call[t]
           m == data[DatabaseOf(c.db)] IN
        RangeRead(t, IF IsList(m, c.key)
                     THEN RRangeOf(m[c.key].List, Atoi(c.from).val, Atoi(c.to).val)
                     ELSE [panic |-> FALSE, s |-> ""])

(***************************************************************************)
(* LPOP, RPOP                                                              *)
(***************************************************************************)
\* "if count < 0 || count > n { count = n }"
PopCount(n, count) == IF count < 0 \/ count > n THEN n ELSE count

\* the body of Database.LPOP on a list that is not empty: the items returned
\* and the list left
LPopOf(list, count) ==
    LET cnt == PopCount(Len(list), count) IN
    [result |-> IF cnt = 0 THEN <<list[1]>> ELSE Slice(list, 0, cnt),
     rest |-> Slice(list, cnt, Len(list))]

\* mutant: the items come back from the tail inward
RPopOfInward(list, count) ==
    LET cnt == PopCount(Len(list), count) IN
    [result |-> [i \in 1 .. cnt |-> list[Len(list) - i + 1]],
     rest |-> Slice(list, 0, Len(list) - cnt)]

\* the body of Database.RPOP on a list that is not empty
RPopOf(list, count) ==
    LET start == Len(list) - PopCount(Len(list), count) IN
    [result |-> Slice(list, start, Len(list)), rest |-> Slice(list, 0, start)]

CallPop(t, D, op, p) ==
    /\ Idle(t)
    /\ \E k \in Keys, count \in PopCounts, db \in D :
        LET c == [NoCall EXCEPT !.op = op, !.key = k, !.db = db, !.count = count] IN
        CASE Route(db) = "invalid" ->
                /\ Reject(t, [ResultOf(c) EXCEPT !.err = ErrInvalidDB, !.nil = TRUE])
                /\ UNCHANGED <<data, now, crashed, loc, hist>>
          [] Route(db) = "nil" -> Crash(t, c)
          [] OTHER ->
                /\ CanLock(DatabaseOf(db))
                /\ Begin(t, c, p)
                /\ UNCHANGED <<data, now, crashed, loc, hist>>

CallLPop(t, D) == CallPop(t, D, "LPOP", "lpop_body")
CallRPop(t, D) == CallPop(t, D, "RPOP", "rpop_body")

\* the section of Database.LPOP (left) / RPOP under the write lock: nil for a key
\* that is absent, no List or empty; else the items go, and the key with the last
PopBody(t, count, left) ==
    LET c == call[t]
        m == data[DatabaseOf(c.db)] IN
    IF ~IsList(m, c.key) \/ Len(m[c.key].List) = 0
    THEN /\ Return(t, [ResultOf(c) EXCEPT !.nil = TRUE])
         /\ UNCHANGED <<data, hist>>
    ELSE LET r == IF left THEN LPopOf(m[c.key].List, count) ELSE RPopOf(m[c.key].List, count)
             entry == [m[c.key] EXCEPT !.List = r.rest] IN
         /\ data' = [data EXCEPT ![DatabaseOf(c.db)] =
                        IF Len(r.rest) = 0
                        THEN Delete(Store(@, c.key, entry), c.key)
                        ELSE Store(@, c.key, entry)]
         /\ hist' = IF Len(r.rest) = 0
                    THEN HistRemove(c.db, c.key, 0)
                    ELSE HistWrite(c.db, c.key)
         /\ Return(t, [ResultOf(c) EXCEPT !.l = r.result])

LPopBody(t) ==
    /\ At(t, "lpop_body")
    /\ PopBody(t, call[t].count, TRUE)
    /\ UNCHANGED <<now, crashed, loc>>

RPopBody(t) ==
    /\ At(t, "rpop_body")
    /\ PopBody(t, call[t].count, FALSE)
    /\ UNCHANGED <<now, crashed, loc>>

(***************************************************************************)
(* BLPOP, BRPOP                                                            *)
(***************************************************************************)
\* Storage.BLPOP / BRPOP, and Database.BLPOP / BRPOP up to its loop: count is
\* raised to 1, the deadline is timeoutSec from now, or none for timeoutSec 0
CallBPop(t, D, op) ==
    /\ Idle(t)
    /\ \E k \in Keys, count \in PopCounts, timeout \in Timeouts, db \in D :
        LET c == [NoCall EXCEPT !.op = op, !.key = k, !.db = db, !.count = count,
                                !.timeout = timeout] IN
        CASE Route(db) = "invalid" ->
                /\ Reject(t, [ResultOf(c) EXCEPT !.err = ErrInvalidDB, !.nil = TRUE])
                /\ UNCHANGED <<data, now, crashed, loc, hist>>
          [] Route(db) = "nil" -> Crash(t, c)
          [] OTHER ->
                /\ Begin(t, c, "bpop_poll")
                /\ loc' = [loc EXCEPT ![t].count = IF count <= 0 THEN 1 ELSE count,
                                      ![t].deadline = IF timeout = 0 THEN ZeroTime
                                                      ELSE now + timeout]
                /\ UNCHANGED <<data, now, crashed, hist>>

CallBLPop(t, D) == CallBPop(t, D, "BLPOP")
CallBRPop(t, D) == CallBPop(t, D, "BRPOP")

\* the top of the loop: d.mu.RLock()
BPopPoll(t) ==
    /\ At(t, "bpop_poll")
    /\ CanRLock(DatabaseOf(call[t].db))
    /\ Goto(t, "bpop_read")
    /\ UNCHANGED <<data, now, crashed, loc, hist>>

\* hasItems, read under the read lock
BPopRead(t) ==
    /\ At(t, "bpop_read")
    /\ LET c == call[t]
           m == data[DatabaseOf(c.db)] IN
        IF IsList(m, c.key) /\ Len(m[c.key].List) >= loc[t].count
        THEN Goto(t, "bpop_lock")
        ELSE Goto(t, "bpop_check")
    /\ UNCHANGED <<data, now, crashed, loc, hist>>

\* mutant: the deadline is never looked at
BPopCheckForever(t) ==
    /\ At(t, "bpop_check")
    /\ Goto(t, "bpop_poll")
    /\ UNCHANGED <<data, now, crashed, loc, hist>>

\* no items: give up past the deadline, else sleep and go round
BPopCheck(t) ==
    /\ At(t, "bpop_check")
    /\ IF loc[t].deadline # ZeroTime /\ now > loc[t].deadline
       THEN /\ Return(t, [ResultOf(call[t]) EXCEPT !.nil = TRUE])
            /\ loc' = [loc EXCEPT ![t] = NoLoc]
       ELSE /\ Goto(t, "bpop_poll")
            /\ UNCHANGED loc
    /\ UNCHANGED <<data, now, crashed, hist>>

\* items seen: d.LPOP / d.RPOP takes the write lock
BPopLock(t) ==
    /\ At(t, "bpop_lock")
    /\ CanLock(DatabaseOf(call[t].db))
    /\ Goto(t, "bpop_body")
    /\ UNCHANGED <<data, now, crashed, loc, hist>>

BPopBody(t) ==
    /\ At(t, "bpop_body")
    /\ PopBody(t, loc[t].count, call[t].op = "BLPOP")
    /\ loc' = [loc EXCEPT ![t] = NoLoc]
    /\ UNCHANGED <<now, crashed>>

(***************************************************************************)
(* TypeCmd                                                                 *)
(***************************************************************************)
\* Storage.TypeCmd has no check of db: an index that names no database yields
\* the nil pointer
CallType(t, D) ==
    /\ Idle(t)
    /\ \E k \in Keys, db \in D :
        LET c == [NoCall EXCEPT !.op = "TypeCmd", !.key = k, !.db = db] IN
        IF db \notin DBs
        THEN Crash(t, c)
        ELSE /\ CanRLock(DatabaseOf(db))
             /\ Begin(t, c, "type_read")
             /\ UNCHANGED <<data, now, crashed, loc, hist>>

\* mutant: a key whose expiry has passed counts as absent
TypeReadExpiring(t) ==
    /\ At(t, "type_read")
    /\ LET c == call[t]
           m == data[DatabaseOf(c.db)] IN
        IF Has(m, c.key) /\ ~IsExpired(m[c.key])
        THEN Return(t, [ResultOf(c) EXCEPT !.n = m[c.key].Type])
        ELSE Return(t, [ResultOf(c) EXCEPT !.nil = TRUE, !.err = "key does not exists"])
    /\ UNCHANGED <<data, now, crashed, loc, hist>>

TypeRead(t) ==
    /\ At(t, "type_read")
    /\ LET c == call[t]
           m == data[DatabaseOf(c.db)] IN
        IF Has(m, c.key)
        THEN Return(t, [ResultOf(c) EXCEPT !.n = m[c.key].Type])
        ELSE Return(t, [ResultOf(c) EXCEPT !.nil = TRUE, !.err = "key does not exists"])
    /\ UNCHANGED <<data, now, crashed, loc, hist>>

(***************************************************************************)
(* XAdd, XRange                                                            *)
(***************************************************************************)
\* fmt.Sprintf("%d", n) for n >= 0
RECURSIVE Itoa(_)
Itoa(n) ==
    IF n < 10 THEN <<DigitChars[n + 1]>> ELSE Itoa(n \div 10) \o <<DigitChars[(n % 10) + 1]>>

\* strings.Split(s, "-")
RECURSIVE Split(_)
Split(s) ==
    IF \A i \in 1 .. Len(s) : s[i] # "-" THEN <<s>>
    ELSE LET i == CHOOSE j \in 1 .. Len(s) :
                    s[j] = "-" /\ \A h \in 1 .. (j - 1) : s[h] # "-" IN
         <<SubSeq(s, 1, i - 1)>> \o Split(SubSeq(s, i + 1, Len(s)))

\* n, _ := strconv.Atoi(s): 0 on a syntax error
AtoiOrZero(s) == IF Atoi(s).ok THEN Atoi(s).val ELSE 0

\* strings.HasPrefix(s, p)
HasPrefix(s, p) == Len(s) >= Len(p) /\ SubSeq(s, 1, Len(p)) = p

\* time.Now().UnixMilli(), the clock of the model counting seconds
UnixMilli(t) == t * 1000

StreamEntry(streams) ==
    [Type |-> TypeStream, String |-> "", List |-> <<>>, Streams |-> streams, Expiry |-> ZeroTime]

\* the ID XAdd generates on the item it read
AutoID(item, ok) ==
    Itoa(UnixMilli(now)) \o <<"-">> \o
    Itoa(IF ~ok \/ Len(item.Streams) = 0 THEN 0 ELSE Len(item.Streams) - 1)

\* the validation of a given ID against the last stream of the item read: the
\* error returned, "" for none
CheckID(item, ok, id) ==
    IF ~(ok /\ Len(item.Streams) > 0) THEN ""
    ELSE LET lastParts == Split(item.Streams[Len(item.Streams)].ID)
             newParts == Split(id) IN
         IF Len(lastParts) # 2 \/ Len(newParts) # 2 THEN "invalid ID format"
         ELSE IF ~Atoi(lastParts[1]).ok THEN "invalid last ID format"
         ELSE IF ~Atoi(newParts[1]).ok THEN "invalid new ID format"
         ELSE IF ~Atoi(lastParts[2]).ok THEN "invalid last ID format"
         ELSE IF ~Atoi(newParts[2]).ok THEN "invalid new ID format"
         ELSE LET lastMs == Atoi(lastParts[1]).val
                  newMs == Atoi(newParts[1]).val
                  lastSeq == Atoi(lastParts[2]).val
                  newSeq == Atoi(newParts[2]).val IN
              IF newMs < lastMs \/ (newMs = lastMs /\ newSeq <= lastSeq)
              THEN "ID must be greater than the last entry's ID"
              ELSE ""

\* Storage.XAdd has no check of db, and Database.XAdd takes no lock: each of
\* its accesses to d.data is a step of its own
CallXAdd(t, D) ==
    /\ Idle(t)
    /\ \E k \in Keys, id \in StreamIDs, pairs \in Pairs, db \in D :
        LET c == [NoCall EXCEPT !.op = "XAdd", !.key = k, !.db = db, !.id = id,
                                !.pairs = pairs] IN
        IF db \notin DBs
        THEN Crash(t, c)
        ELSE /\ Begin(t, c, "xadd_read")
             /\ UNCHANGED <<data, now, crashed, loc, hist>>

\* item, ok := d.data[key]
XAddRead(t) ==
    /\ At(t, "xadd_read")
    /\ LET c == call[t]
           m == data[DatabaseOf(c.db)] IN
        loc' = [loc EXCEPT ![t].entry = Lookup(m, c.key), ![t].ok = Has(m, c.key)]
    /\ Goto(t, "xadd_id")
    /\ UNCHANGED <<data, now, crashed, hist>>

\* the step of XAdd at "xadd_id" stores the empty stream
XAddInits(t) == ~loc[t].ok \/ Len(loc[t].entry.Streams) = 0

\* the ID is generated or validated; a key that is absent or holds no stream
\* is set to the empty stream
XAddID(t) ==
    /\ At(t, "xadd_id")
    /\ LET c == call[t]
           err == IF c.id = <<>> THEN "" ELSE CheckID(loc[t].entry, loc[t].ok, c.id)
           id == IF c.id = <<>> THEN AutoID(loc[t].entry, loc[t].ok) ELSE c.id IN
        IF err # ""
        THEN /\ Return(t, [ResultOf(c) EXCEPT !.err = err])
             /\ loc' = [loc EXCEPT ![t] = NoLoc]
             /\ UNCHANGED <<data, hist>>
        ELSE /\ Goto(t, "xadd_reread")
             /\ loc' = [loc EXCEPT ![t].id = id]
             /\ IF XAddInits(t)
                THEN /\ data' = [data EXCEPT ![DatabaseOf(c.db)] =
                                    Store(@, c.key, StreamEntry(<<>>))]
                     /\ hist' = HistWrite(c.db, c.key)
                ELSE UNCHANGED <<data, hist>>
    /\ UNCHANGED <<now, crashed>>

\* item = d.data[key]; item.Value.Streams = append(item.Value.Streams, stream)
XAddReread(t) ==
    /\ At(t, "xadd_reread")
    /\ LET c == call[t]
           item == Lookup(data[DatabaseOf(c.db)], c.key)
           stream == [Key |-> c.key, ID |-> loc[t].id, Entries |-> c.pairs] IN
        loc' = [loc EXCEPT ![t].entry = [item EXCEPT !.Streams = Append(@, stream)]]
    /\ Goto(t, "xadd_store")
    /\ UNCHANGED <<data, now, crashed, hist>>

\* d.data[key] = item
XAddStore(t) ==
    /\ At(t, "xadd_store")
    /\ LET c == call[t] IN
        /\ data' = [data EXCEPT ![DatabaseOf(c.db)] = Store(@, c.key, loc[t].entry)]
        /\ hist' = HistWrite(c.db, c.key)
        /\ Return(t, ResultOf(c))
    /\ loc' = [loc EXCEPT ![t] = NoLoc]
    /\ UNCHANGED <<now, crashed>>

XAddPCs == {"xadd_read", "xadd_id", "xadd_reread", "xadd_store"}
XAddWrites(t) == pc[t] = "xadd_store" \/ (pc[t] = "xadd_id" /\ XAddInits(t))

\* XAdd's unlocked access to the map, next for t, overlaps the access of u to
\* the same map, and one of the two is a write
Overlaps(t, u) ==
    LET d == DatabaseOf(call[t].db) IN
    IF pc[u] \in XAddPCs
    THEN DatabaseOf(call[u].db) = d /\ (XAddWrites(t) \/ XAddWrites(u))
    ELSE u \in Writers(d) \/ (u \in Readers(d) /\ XAddWrites(t))

\* the runtime may detect the overlap and end the process ("fatal error:
\* concurrent map read and map write", "concurrent map writes")
XAddRace(t) ==
    /\ ~crashed
    /\ pc[t] \in XAddPCs
    /\ \E u \in Threads \ {t} : Overlaps(t, u)
    /\ crashed' = TRUE
    /\ UNCHANGED <<data, now, pc, call, loc, res, calls, hist>>

\* the body of Database.XRange on the streams read
XRangeOf(streams, start, end) ==
    LET startInt == AtoiOrZero(start)
        endInt == AtoiOrZero(end)
        In(st) ==
            LET idMils == AtoiOrZero(Split(st.ID)[1]) IN
            \/ HasPrefix(start, <<"+">>) /\ idMils <= endInt
            \/ HasPrefix(end, <<"-">>) /\ idMils >= startInt
            \/ idMils >= startInt /\ idMils <= endInt
        found == SelectSeq(streams, In) IN
    [i \in 1 .. Len(found) |-> [ID |-> found[i].ID, Entries |-> found[i].Entries]]

CallXRange(t, D) ==
    /\ Idle(t)
    /\ \E k \in Keys, start \in StreamArgs, end \in StreamArgs, db \in D :
        LET c == [NoCall EXCEPT !.op = "XRange", !.key = k, !.db = db, !.from = start,
                                !.to = end] IN
        CASE Route(db) = "invalid" ->
                /\ Reject(t, [ResultOf(c) EXCEPT !.err = ErrInvalidDB, !.nil = TRUE])
                /\ UNCHANGED <<data, now, crashed, loc, hist>>
          [] Route(db) = "nil" -> Crash(t, c)
          [] OTHER ->
                /\ CanRLock(DatabaseOf(db))
                /\ Begin(t, c, "xrange_read")
                /\ UNCHANGED <<data, now, crashed, loc, hist>>

XRangeRead(t) ==
    /\ At(t, "xrange_read")
    /\ LET c == call[t]
           m == data[DatabaseOf(c.db)] IN
        IF ~Has(m, c.key)
        THEN Return(t, [ResultOf(c) EXCEPT !.nil = TRUE, !.err = "not exists"])
        ELSE IF Len(m[c.key].Streams) = 0
        THEN Return(t, [ResultOf(c) EXCEPT !.nil = TRUE, !.err = "is not stream"])
        ELSE Return(t, [ResultOf(c) EXCEPT !.l = XRangeOf(m[c.key].Streams, c.from, c.to)])
    /\ UNCHANGED <<data, now, crashed, loc, hist>>

(***************************************************************************)
(* The clock.                                                              *)
(***************************************************************************)
Tick ==
    /\ ~crashed
    /\ now < MaxTime
    /\ now' = now + 1
    /\ UNCHANGED <<data, crashed, pc, call, loc, res, calls, hist>>

(***************************************************************************)
(* Specifications.                                                         *)
(***************************************************************************)
Init ==
    /\ data = [d \in DBs |-> EmptyMap]
    /\ now = 1
    /\ crashed = FALSE
    /\ pc = [t \in Threads |-> "idle"]
    /\ call = [t \in Threads |-> NoCall]
    /\ loc = [t \in Threads |-> NoLoc]
    /\ res = [t \in Threads |-> NoRes]
    /\ calls = 0
    /\ hist = [fresh |-> [d \in DBs |-> [k \in Keys |-> None]],
               ones |-> [d \in DBs |-> [k \in Keys |-> 0]],
               dirty |-> [t \in Threads |-> FALSE],
               wrote |-> [d \in DBs |-> {}]]

\* Set, Get and Del on one database under a running clock
NextKV ==
    \/ \E t \in Threads : CallSet(t, {0})
    \/ \E t \in Threads : SetBody(t)
    \/ \E t \in Threads : CallGet(t, {0})
    \/ \E t \in Threads : GetRead(t)
    \/ \E t \in Threads : GetCheck(t)
    \/ \E t \in Threads : GetDel(t)
    \/ \E t \in Threads : CallDel(t, {0})
    \/ \E t \in Threads : DelRead(t)
    \/ \E t \in Threads : DelLock(t)
    \/ \E t \in Threads : DelBody(t)
    \/ Tick

SpecKV == Init /\ [][NextKV]_vars

\* Set racing Flush
NextFlush ==
    \/ \E t \in Threads : CallSet(t, UsedDBs)
    \/ \E t \in Threads : SetBody(t)
    \/ \E t \in Threads : CallFlush(t)
    \/ \E t \in Threads : FlushLock(t)
    \/ \E t \in Threads : FlushBody(t)
    \/ Tick

SpecFlush == Init /\ [][NextFlush]_vars

\* the list operations on one database, and Set to make a key that is no List
NextList ==
    \/ \E t \in Threads : CallSet(t, {0})
    \/ \E t \in Threads : SetBody(t)
    \/ \E t \in Threads : CallRPush(t, {0})
    \/ \E t \in Threads : RPushBody(t)
    \/ \E t \in Threads : CallLPush(t, {0})
    \/ \E t \in Threads : LPushBody(t)
    \/ \E t \in Threads : CallRLen(t, {0})
    \/ \E t \in Threads : RLenRead(t)
    \/ \E t \in Threads : CallLRange(t, {0})
    \/ \E t \in Threads : LRangeRead(t)
    \/ \E t \in Threads : CallRRange(t, {0})
    \/ \E t \in Threads : RRangeRead(t)

SpecList == Init /\ [][NextList]_vars

\* the steps of Set, Get, Del, the pushes, the pops and XAdd
IsoSteps ==
    \/ \E t \in Threads : SetBody(t)
    \/ \E t \in Threads : GetRead(t)
    \/ \E t \in Threads : GetCheck(t)
    \/ \E t \in Threads : GetDel(t)
    \/ \E t \in Threads : DelRead(t)
    \/ \E t \in Threads : DelLock(t)
    \/ \E t \in Threads : DelBody(t)
    \/ \E t \in Threads : RPushBody(t)
    \/ \E t \in Threads : LPushBody(t)
    \/ \E t \in Threads : LPopBody(t)
    \/ \E t \in Threads : RPopBody(t)
    \/ \E t \in Threads : XAddRead(t)
    \/ \E t \in Threads : XAddID(t)
    \/ \E t \in Threads : XAddReread(t)
    \/ \E t \in Threads : XAddStore(t)
    \/ \E t \in Threads : XAddRace(t)
    \/ Tick

\* the operations the isolation of the databases is about, on two databases
NextIso ==
    \/ \E t \in Threads : calls < MaxIsoCalls /\ CallSet(t, UsedDBs)
    \/ \E t \in Threads : calls < MaxIsoCalls /\ CallGet(t, UsedDBs)
    \/ \E t \in Threads : calls < MaxIsoCalls /\ CallDel(t, UsedDBs)
    \/ \E t \in Threads : calls < MaxIsoCalls /\ CallRPush(t, UsedDBs)
    \/ \E t \in Threads : calls < MaxIsoCalls /\ CallLPush(t, UsedDBs)
    \/ \E t \in Threads : calls < MaxIsoCalls /\ CallLPop(t, UsedDBs)
    \/ \E t \in Threads : calls < MaxIsoCalls /\ CallRPop(t, UsedDBs)
    \/ \E t \in Threads : calls < MaxIsoCalls /\ CallXAdd(t, UsedDBs)
    \/ IsoSteps

SpecIso == Init /\ [][NextIso]_vars

\* one database, and the indices that name none
AllDBs == {0} \cup BadDBs

AllSteps ==
    \/ IsoSteps
    \/ \E t \in Threads : FlushLock(t)
    \/ \E t \in Threads : FlushBody(t)
    \/ \E t \in Threads : RLenRead(t)
    \/ \E t \in Threads : LRangeRead(t)
    \/ \E t \in Threads : RRangeRead(t)
    \/ \E t \in Threads : BPopPoll(t)
    \/ \E t \in Threads : BPopRead(t)
    \/ \E t \in Threads : BPopCheck(t)
    \/ \E t \in Threads : BPopLock(t)
    \/ \E t \in Threads : BPopBody(t)
    \/ \E t \in Threads : TypeRead(t)
    \/ \E t \in Threads : XRangeRead(t)

\* every operation of Storage, called with a valid index and with invalid ones
NextAll ==
    \/ \E t \in Threads : calls < MaxAllCalls /\ CallSet(t, AllDBs)
    \/ \E t \in Threads : calls < MaxAllCalls /\ CallGet(t, AllDBs)
    \/ \E t \in Threads : calls < MaxAllCalls /\ CallDel(t, AllDBs)
    \/ \E t \in Threads : calls < MaxAllCalls /\ CallFlush(t)
    \/ \E t \in Threads : calls < MaxAllCalls /\ CallRPush(t, AllDBs)
    \/ \E t \in Threads : calls < MaxAllCalls /\ CallLPush(t, AllDBs)
    \/ \E t \in Threads : calls < MaxAllCalls /\ CallRLen(t, AllDBs)
    \/ \E t \in Threads : calls < MaxAllCalls /\ CallLRange(t, AllDBs)
    \/ \E t \in Threads : calls < MaxAllCalls /\ CallRRange(t, AllDBs)
    \/ \E t \in Threads : calls < MaxAllCalls /\ CallLPop(t, AllDBs)
    \/ \E t \in Threads : calls < MaxAllCalls /\ CallRPop(t, AllDBs)
    \/ \E t \in Threads : calls < MaxAllCalls /\ CallBLPop(t, AllDBs)
    \/ \E t \in Threads : calls < MaxAllCalls /\ CallBRPop(t, AllDBs)
    \/ \E t \in Threads : calls < MaxAllCalls /\ CallType(t, AllDBs)
    \/ \E t \in Threads : calls < MaxAllCalls /\ CallXAdd(t, AllDBs)
    \/ \E t \in Threads : calls < MaxAllCalls /\ CallXRange(t, AllDBs)
    \/ AllSteps

SpecAll == Init /\ [][NextAll]_vars

(***************************************************************************)
(* Properties of the databases as a whole (SpecIso, SpecAll).              *)
(***************************************************************************)
\* C1: a step of an operation addressed to database i leaves the map of every
\* other database j unchanged (Set, Del, the pushes and pops, XAdd, and Get with
\* its deletion of an expired key); and a Get on j returns an entry only for a
\* key that an operation addressed to j has written.
DatabaseIsolation ==
    [][\A t \in Threads :
        (pc'[t] # pc[t] \/ res'[t] # res[t]) =>
            LET i == IF pc[t] # "idle" THEN call[t].db
                     ELSE IF pc'[t] # "idle" THEN call'[t].db ELSE res'[t].db IN
            /\ \A j \in (0 .. 9) \ {i} : data'[j] = data[j]
            /\ (pc[t] \in {"get_read", "get_check"} /\ pc'[t] = "idle" /\ ~res'[t].nil)
                => call[t].key \in hist.wrote[i]
      ]_vars

\* C1 witness: k holds a in database 0 and b in database 1, and a Get of k on
\* database 1 has returned b.
IsolationWitness ==
    /\ "k" \in DOMAIN data[0] /\ data[0]["k"].String = "a"
    /\ "k" \in DOMAIN data[1] /\ data[1]["k"].String = "b"
    /\ \E t \in Threads :
        res[t].op = "Get" /\ res[t].db = 1 /\ ~res[t].nil /\ res[t].entry.String = "b"

\* C5: a call of an operation that can return an error, made with a database
\* index outside 0..9, returns the invalid-database error, the process does not
\* crash, and no map changes.
InvalidDBRejected ==
    [][\A t \in Threads :
        (/\ calls' = calls + 1
         /\ pc'[t] = "idle"
         /\ res'[t] # res[t]
         /\ res'[t].op \in {"Set", "Get", "RPush", "LPush", "RLen", "LRange", "RRange",
                            "LPOP", "RPOP", "BLPOP", "BRPOP", "TypeCmd", "XAdd", "XRange"}
         /\ res'[t].db \notin 0 .. 9)
            => (res'[t].err = "invalid database" /\ ~crashed' /\ data' = data)
      ]_vars

(***************************************************************************)
(* Properties of Get, Set and Del (SpecKV).                                *)
(***************************************************************************)
\* C2: Get never returns an entry whose expiry has passed: an entry Get returns
\* has no expiry or one not before the clock at the return; a Get that finds the
\* copy it read expired goes on to delete the key, and returns absent with the
\* key gone.
GetNeverReturnsExpired ==
    [][\A t \in Threads :
        /\ (res[t].op # "Get" /\ res'[t].op = "Get" /\ res'[t].err = "" /\ ~res'[t].nil)
            => (res'[t].entry.Expiry = 0 \/ now <= res'[t].entry.Expiry)
        /\ (pc[t] = "get_check" /\ pc'[t] # "get_check"
                /\ loc[t].entry.Expiry # 0 /\ now > loc[t].entry.Expiry)
            => pc'[t] = "get_del"
        /\ (pc[t] = "get_del" /\ pc'[t] # "get_del")
            => (res'[t].nil /\ call[t].key \notin DOMAIN data'[call[t].db])
      ]_vars

\* C2 witness: the last Set of k has expired, nothing else wrote or deleted k,
\* and a Get has returned absent, leaving the key deleted.
GetExpiredWitness ==
    \E t \in Threads :
        /\ res[t].op = "Get" /\ res[t].nil /\ res[t].err = ""
        /\ hist.fresh[0]["k"] # None
        /\ hist.fresh[0]["k"].Expiry # 0
        /\ now > hist.fresh[0]["k"].Expiry
        /\ "k" \notin DOMAIN data[0]

\* C3: after Set(k,v,ttl>0,db) with no later write or delete of k in db, a Get
\* that reads before the expiry instant finds k holding the String v, and
\* returns it when its expiry test runs before that instant too.
GetReturnsLastSet ==
    [][\A t \in Threads :
        LET f == hist.fresh[call[t].db][call[t].key] IN
        /\ (pc[t] = "get_read" /\ pc'[t] # "get_read"
                /\ f # None /\ f.Expiry # 0 /\ now <= f.Expiry)
            => (pc'[t] = "get_check" /\ loc'[t].entry = f)
        /\ (pc[t] = "get_check" /\ pc'[t] # "get_check" /\ loc[t].entry = f
                /\ f # None /\ f.Expiry # 0 /\ now <= f.Expiry)
            => (res'[t].entry = f /\ ~res'[t].nil)
      ]_vars

\* C4: for a key that exists and is not rewritten, at most one Del returns 1.
DelReturnsOneOnce ==
    \A d \in DBs, k \in Keys : hist.ones[d][k] <= 1


(***************************************************************************)
(* Properties of Flush (SpecFlush: Set racing Flush).                      *)
(***************************************************************************)
\* C6: when a Flush returns and no writer has run since its call began, every
\* one of the ten databases is empty.
FlushEmptiesAll ==
    [][\A t \in Threads :
        (pc[t] = "flush_body" /\ pc'[t] = "idle" /\ ~hist.dirty[t])
            => \A d \in 0 .. 9 : DOMAIN data'[d] = {}
      ]_vars

\* C6 witness: a Set was applied, then a Flush ran with no writer beside it and
\* has returned, and the databases are empty.
FlushWitness ==
    \E t, u \in Threads :
        /\ res[t].op = "Flush" /\ ~hist.dirty[t]
        /\ res[u].op = "Set" /\ res[u].err = ""
        /\ \A d \in DBs : DOMAIN data[d] = {}

\* C7: each Set takes effect entirely before or entirely after the flush of its
\* keyspace: a key whose last Set came after the last flush of its database is
\* present with exactly that Set's value and expiry (the Set is not lost), and
\* every other key is absent.
SetFlushAtomic ==
    \A d \in DBs, k \in Keys :
        IF hist.fresh[d][k] = None
        THEN k \notin DOMAIN data[d]
        ELSE k \in DOMAIN data[d] /\ data[d][k] = hist.fresh[d][k]

\* C7 witness: a Flush is under way and is done with database 0, and a Set
\* applied to database 0 since then is in place.
SetAfterFlushWitness ==
    \E t \in Threads :
        /\ pc[t] = "flush_next"
        /\ 0 \notin loc[t].pending
        /\ "k" \in DOMAIN data[0]
        /\ data[0]["k"].Expiry # 0

(***************************************************************************)
(* Properties of the list operations (SpecList).                           *)
(***************************************************************************)
\* the list stored at k in m, empty when k is absent or no List
ListAt(m, k) == IF k \in DOMAIN m /\ m[k].Type = 1 THEN m[k].List ELSE <<>>

\* C8: RPush(k, items) on a list L stores L followed by items and returns
\* len(L)+len(items); on an absent key the list becomes exactly items; and
\* LRange(k,0,-1) on the list [a,b,c] returns "a,b,c".
RPushAppends ==
    [][\A t \in Threads :
        LET c == call[t]
            old == ListAt(data[c.db], c.key) IN
        /\ (pc[t] = "rpush_body" /\ pc'[t] # "rpush_body")
            => /\ c.key \in DOMAIN data'[c.db]
               /\ data'[c.db][c.key].Type = 1
               /\ data'[c.db][c.key].List = old \o c.items
               /\ res'[t].n = Len(old) + Len(c.items)
               /\ res'[t].err = ""
        /\ (pc[t] = "lrange_read" /\ res'[t] # res[t]
                /\ c.from = <<"0">> /\ c.to = <<"-", "1">> /\ old = <<"a", "b", "c">>)
            => res'[t].s = "a,b,c"
      ]_vars

\* C8 witness: an RPush has made the list [a,b,c], returning 3, and an LRange
\* has returned "a,b,c".
RPushWitness ==
    \E t, u \in Threads :
        /\ res[t].op = "RPush" /\ res[t].n = 3
        /\ res[u].op = "LRange" /\ res[u].s = "a,b,c"
        /\ ListAt(data[0], "k") = <<"a", "b", "c">>

\* C9: LPush(k, items) on a list L stores items, in their given order, followed
\* by L, and returns len(items)+len(L).
LPushPrependsBlock ==
    [][\A t \in Threads :
        LET c == call[t]
            old == ListAt(data[c.db], c.key) IN
        (pc[t] = "lpush_body" /\ pc'[t] # "lpush_body")
            => /\ c.key \in DOMAIN data'[c.db]
               /\ data'[c.db][c.key].Type = 1
               /\ data'[c.db][c.key].List = c.items \o old
               /\ res'[t].n = Len(c.items) + Len(old)
               /\ res'[t].err = ""
      ]_vars

\* C9 witness: LPush of [x,y] on [a,b,c] has left [x,y,a,b,c] and returned 5.
LPushWitness ==
    \E t \in Threads :
        /\ res[t].op = "LPush" /\ res[t].n = 5
        /\ ListAt(data[0], "k") = <<"x", "y", "a", "b", "c">>

\* the elements of list at the positions from..to (counted from 0) after adding
\* the length to a negative index, raising from to 0, lowering to to length-1
RangeExpected(list, from, to) ==
    LET n == Len(list)
        f0 == IF from < 0 THEN from + n ELSE from
        u0 == IF to < 0 THEN to + n ELSE to
        f == IF f0 < 0 THEN 0 ELSE f0
        u == IF u0 > n - 1 THEN n - 1 ELSE u0 IN
    IF f > u THEN <<>> ELSE [i \in 1 .. (u - f + 1) |-> list[f + i]]

RRangeExclusive ==
    [][\A t \in Threads :
        LET c == call[t]
            list == ListAt(data[c.db], c.key)
            from == Atoi(c.from).val
            to == Atoi(c.to).val
            hi == IF to > Len(list) THEN Len(list) ELSE to IN
        (pc[t] = "rrange_read" /\ res'[t] # res[t] /\ from >= 0 /\ to >= 0)
            => /\ res'[t].err = ""
               /\ res'[t].s = Join(IF from >= hi THEN <<>>
                                   ELSE [i \in 1 .. (hi - from) |-> list[from + i]])
      ]_vars

\* C13: no database holds a List key with zero elements.
NoEmptyList ==
    \A d \in 0 .. 9 :
        \A k \in DOMAIN data[d] : data[d][k].Type = 1 => Len(data[d][k].List) > 0

(***************************************************************************)
(* The pops (SpecPop): pushes and pops, blocking and not, on one database  *)
(* under a running clock.                                                  *)
(***************************************************************************)
NextPop ==
    \/ \E t \in Threads : calls < MaxPopCalls /\ CallRPush(t, {0})
    \/ \E t \in Threads : RPushBody(t)
    \/ \E t \in Threads : calls < MaxPopCalls /\ CallLPop(t, {0})
    \/ \E t \in Threads : LPopBody(t)
    \/ \E t \in Threads : calls < MaxPopCalls /\ CallRPop(t, {0})
    \/ \E t \in Threads : RPopBody(t)
    \/ \E t \in Threads : calls < MaxPopCalls /\ CallBLPop(t, {0})
    \/ \E t \in Threads : calls < MaxPopCalls /\ CallBRPop(t, {0})
    \/ \E t \in Threads : BPopPoll(t)
    \/ \E t \in Threads : BPopRead(t)
    \/ \E t \in Threads : BPopCheck(t)
    \/ \E t \in Threads : BPopLock(t)
    \/ \E t \in Threads : BPopBody(t)
    \/ Tick

SpecPop == Init /\ [][NextPop]_vars

\* C12: on a List of n > 0 elements, with count >= 1 and count > n taken as n,
\* LPOP returns the first count elements in stored order and leaves the others
\* in order, RPOP returns the last count elements in stored order and leaves
\* the first n - count; what is returned and what is left make up the list
\* before the call.
PopsSplitList ==
    [][\A t \in Threads :
        LET c == call[t]
            old == ListAt(data[c.db], c.key)
            new == ListAt(data'[c.db], c.key)
            n == Len(old)
            cnt == IF c.count > n THEN n ELSE c.count IN
        /\ (pc[t] = "lpop_body" /\ pc'[t] = "idle" /\ n > 0 /\ c.count >= 1)
            => /\ res'[t].l = SubSeq(old, 1, cnt)
               /\ new = SubSeq(old, cnt + 1, n)
               /\ res'[t].l \o new = old
               /\ ~res'[t].nil /\ res'[t].err = ""
        /\ (pc[t] = "rpop_body" /\ pc'[t] = "idle" /\ n > 0 /\ c.count >= 1)
            => /\ res'[t].l = SubSeq(old, n - cnt + 1, n)
               /\ new = SubSeq(old, 1, n - cnt)
               /\ new \o res'[t].l = old
               /\ ~res'[t].nil /\ res'[t].err = ""
      ]_vars

\* C12 witness: RPOP(k,2) on [a,b,c,x,y] has returned [x,y] and left [a,b,c].
PopsWitness ==
    \E t \in Threads :
        /\ res[t].op = "RPOP" /\ res[t].l = <<"x", "y">>
        /\ ListAt(data[0], "k") = <<"a", "b", "c">>

\* C14: BLPOP / BRPOP returns an empty result only when the call has a deadline
\* (timeoutSec is not 0) and the clock is at or past the deadline set at the
\* call's entry.
BPopEmptyOnlyAtDeadline ==
    [][\A t \in Threads :
        (/\ pc[t] \in {"bpop_check", "bpop_body"}
         /\ pc'[t] = "idle"
         /\ res'[t].nil \/ res'[t].l = <<>>)
            => (call[t].timeout # 0 /\ now >= loc[t].deadline)
      ]_vars

(***************************************************************************)
(* A blocking pop and a pusher (SpecWait): goroutine 1 calls BLPOP / BRPOP, *)
(* goroutine 2 pushes, so that nothing but the blocking call removes       *)
(* elements.  The scheduler runs every goroutine that can take a step, and *)
(* time advances.                                                          *)
(***************************************************************************)
Waiters == {1}
Pushers == {2}

WaitStep(t) ==
    \/ RPushBody(t)
    \/ BPopPoll(t)
    \/ BPopRead(t)
    \/ BPopCheck(t)
    \/ BPopLock(t)
    \/ BPopBody(t)

NextWait ==
    \/ \E t \in Waiters : calls < MaxPopCalls /\ CallBLPop(t, {0})
    \/ \E t \in Waiters : calls < MaxPopCalls /\ CallBRPop(t, {0})
    \/ \E t \in Pushers : calls < MaxPopCalls /\ CallRPush(t, {0})
    \/ \E t \in Threads : WaitStep(t)
    \/ Tick

SpecWait ==
    /\ Init
    /\ [][NextWait]_vars
    /\ \A t \in Threads : WF_vars(WaitStep(t))
    /\ WF_vars(Tick)

BPopPCs == {"bpop_poll", "bpop_read", "bpop_check", "bpop_lock", "bpop_body"}

\* C15: when a BLPOP / BRPOP call is in its loop, its deadline (if any) not yet
\* passed, and the list at its key has at least count elements, none of which
\* any other operation removes, the call eventually returns count elements.
BPopServed ==
    \A t \in Waiters, n \in 1 .. 2 :
        (/\ pc[t] \in BPopPCs
         /\ loc[t].count = n
         /\ loc[t].deadline = 0 \/ now <= loc[t].deadline
         /\ Len(ListAt(data[call[t].db], call[t].key)) >= n)
        ~> (pc[t] = "idle" /\ res[t].op \in {"BLPOP", "BRPOP"} /\ Len(res[t].l) = n)

(***************************************************************************)
(* The streams (SpecStream): XAdd and XRange on one database under a       *)
(* running clock.                                                          *)
(***************************************************************************)
NextStream ==
    \/ \E t \in Threads : CallXAdd(t, {0})
    \/ \E t \in Threads : XAddRead(t)
    \/ \E t \in Threads : XAddID(t)
    \/ \E t \in Threads : XAddReread(t)
    \/ \E t \in Threads : XAddStore(t)
    \/ \E t \in Threads : XAddRace(t)
    \/ \E t \in Threads : CallXRange(t, {0})
    \/ \E t \in Threads : XRangeRead(t)
    \/ Tick

SpecStream == Init /\ [][NextStream]_vars

\* an id is two decimal integers joined by one "-"
IDOk(id) == Len(Split(id)) = 2 /\ Atoi(Split(id)[1]).ok /\ Atoi(Split(id)[2]).ok
IDMillis(id) == Atoi(Split(id)[1]).val
IDSeq(id) == Atoi(Split(id)[2]).val

\* id a is strictly below id b: millis first, the sequence on equal millis
IDLess(a, b) ==
    /\ IDOk(a) /\ IDOk(b)
    /\ \/ IDMillis(a) < IDMillis(b)
       \/ IDMillis(a) = IDMillis(b) /\ IDSeq(a) < IDSeq(b)

\* C16: in every stream, consecutive entries have strictly increasing ids.
StreamIDsIncrease ==
    \A d \in 0 .. 9 :
        \A k \in DOMAIN data[d] :
            \A i \in 1 .. (Len(data[d][k].Streams) - 1) :
                IDLess(data[d][k].Streams[i].ID, data[d][k].Streams[i + 1].ID)

\* the last id of the stream stored at k in m, <<>> when there is none
LastID(m, k) ==
    IF k \in DOMAIN m /\ Len(m[k].Streams) > 0
    THEN m[k].Streams[Len(m[k].Streams)].ID
    ELSE <<>>

\* C17: an XAdd with an explicit id that is not strictly greater than the last
\* id of the stream fails with the out-of-order error and leaves the stream as
\* it is: its validation returns that error, and it appends nothing.
XAddOutOfOrderFails ==
    [][\A t \in Threads :
        LET c == call[t]
            last == LastID(data[c.db], c.key)
            late == IDOk(c.id) /\ IDOk(last) /\ ~IDLess(last, c.id) IN
        /\ (pc[t] = "xadd_id" /\ pc'[t] # "xadd_id" /\ late)
            => /\ pc'[t] = "idle"
               /\ res'[t].err = "ID must be greater than the last entry's ID"
               /\ data' = data
        /\ (pc[t] = "xadd_store" /\ pc'[t] # "xadd_store" /\ late)
            => data' = data
      ]_vars

(***************************************************************************)
(* Set, Get and Del under a fair scheduler and advancing time (SpecKVFair). *)
(* NewStorage starts no goroutine: the callers' goroutines are all there   *)
(* is.                                                                     *)
(***************************************************************************)
KVStep(t) ==
    \/ SetBody(t)
    \/ GetRead(t)
    \/ GetCheck(t)
    \/ GetDel(t)
    \/ DelRead(t)
    \/ DelLock(t)
    \/ DelBody(t)

SpecKVFair ==
    /\ Init
    /\ [][NextKV]_vars
    /\ \A t \in Threads : WF_vars(KVStep(t))
    /\ WF_vars(Tick)

\* C18: an entry whose expiry has passed is eventually removed from its
\* database, whether or not a Get reads its key.
ExpiredEventuallyRemoved ==
    \A d \in {0}, k \in Keys :
        (k \in DOMAIN data[d] /\ data[d][k].Expiry # 0 /\ now > data[d][k].Expiry)
            ~> (k \notin DOMAIN data[d])

(***************************************************************************)
(* Properties of the arguments of LRange / RRange (SpecList).              *)
(***************************************************************************)
\* s is the decimal form of an integer: an optional sign, then digits
IsInteger(s) ==
    LET digits == IF s # <<>> /\ s[1] \in {"+", "-"} THEN Tail(s) ELSE s IN
    /\ digits # <<>>
    /\ \A i \in 1 .. Len(digits) :
        digits[i] \in {"0", "1", "2", "3", "4", "5", "6", "7", "8", "9"}

\* C19: a call of LRange / RRange goes on to read the map only when from and to
\* both are integers; every other call returns an error at once, having neither
\* read nor changed any map.
RangeArgsValidated ==
    [][\A t \in Threads :
        (/\ calls' = calls + 1
         /\ pc'[t] # pc[t] \/ res'[t] # res[t]
         /\ (IF pc'[t] = "idle" THEN res'[t].op ELSE call'[t].op) \in {"LRange", "RRange"})
            => \/ /\ pc'[t] \in {"lrange_read", "rrange_read"}
                  /\ IsInteger(call'[t].from) /\ IsInteger(call'[t].to)
               \/ /\ pc'[t] = "idle"
                  /\ res'[t].err \in {"invalid from range", "invalid to range"}
                  /\ data' = data
                  /\ ~crashed'
      ]_vars

\* C19 witness: k holds the list [a,b,c], and a call of RRange has returned the
\* error for from, one of LRange the error for to.
RangeArgsWitness ==
    /\ ListAt(data[0], "k") = <<"a", "b", "c">>
    /\ \E t, u \in Threads :
        /\ res[t].op = "RRange" /\ res[t].err = "invalid from range"
        /\ res[u].op = "LRange" /\ res[u].err = "invalid to range"

(***************************************************************************)
(* Properties of Del outside the ten databases (SpecAll).                  *)
(***************************************************************************)
\* C20: a call of Del with a db outside 0 .. 9 returns 0 and removes nothing,
\* in any database.
DelInvalidDBReturnsZero ==
    [][\A t \in Threads :
        (/\ calls' = calls + 1
         /\ pc'[t] = "idle"
         /\ res'[t] # res[t]
         /\ res'[t].op = "Del"
         /\ res'[t].db \notin 0 .. 9)
            => (res'[t].n = 0 /\ res'[t].err = "" /\ ~crashed' /\ data' = data)
      ]_vars

(***************************************************************************)
(* Properties of the blocking pops among other pops (SpecPop).             *)
(***************************************************************************)
\* C21: a result of BLPOP / BRPOP that is not empty holds exactly count
\* elements (count <= 0 taken as 1), whatever other pops run on the key.
BPopReturnsCount ==
    [][\A t \in Threads :
        (/\ pc[t] = "bpop_body"
         /\ pc'[t] = "idle"
         /\ ~res'[t].nil
         /\ res'[t].l # <<>>)
            => Len(res'[t].l) = loc[t].count
      ]_vars

(***************************************************************************)
(* Properties of the delete on expiry inside Get (SpecKV).                 *)
(***************************************************************************)
\* C22: when Get deletes a key it found expired, the entry it removes is the
\* expired entry it read: an entry written to the key since is not removed.
GetDeletesWhatItRead ==
    [][\A t \in Threads :
        (/\ pc[t] = "get_del"
         /\ pc'[t] = "idle"
         /\ Has(data[call[t].db], call[t].key))
            => data[call[t].db][call[t].key] = loc[t].entry
      ]_vars

(***************************************************************************)
(* Properties of the locking of the map (SpecStream).                      *)
(***************************************************************************)
\* C23: no operation writes the map of a database while another operation is
\* reading or writing that map: in no state is an access of XAdd to the map
\* due while another goroutine is inside an access to the same map, one of the
\* two being a write.
NoConcurrentMapAccess ==
    \A t, u \in Threads :
        (t # u /\ pc[t] \in XAddPCs) => ~Overlaps(t, u)

(***************************************************************************)
(* Properties of the locks of a blocking pop (SpecPop).                    *)
(***************************************************************************)
\* the positions of a blocking pop between two polls: the read lock released,
\* the deadline test, the sleep, up to the next d.mu.RLock()
BPopSleepPCs == {"bpop_check", "bpop_poll"}

\* C24: a BLPOP / BRPOP call between two polls holds neither lock of its
\* database: it keeps no other operation from taking the read or write lock.
BPopSleepsUnlocked ==
    \A t \in Threads, d \in DBs :
        pc[t] \in BPopSleepPCs
            => /\ t \notin Readers(d) \cup Writers(d)
               /\ (\A u \in Threads \ {t} : u \notin Readers(d) \cup Writers(d))
                    => CanLock(d)

\* C24 witness: while a blocking pop on k sleeps between polls, a push to k
\* holds the write lock of the same database.
BPopSleepWitness ==
    \E t, u \in Threads :
        /\ pc[t] = "bpop_check" /\ call[t].key = "k" /\ call[t].db = 0
        /\ pc[u] = "rpush_body" /\ call[u].key = "k" /\ call[u].db = 0
        /\ u \in Writers(0)

(***************************************************************************)
(* The pops under a fair scheduler (SpecPopFair): time advances, and a     *)
(* goroutine whose call can take a step again and again takes it.  The      *)
(* fairness is strong because of sync.RWMutex: a goroutine blocked in Lock  *)
(* keeps new readers out, so it gets the lock although readers come and go. *)
(***************************************************************************)
PopStep(t) ==
    \/ RPushBody(t)
    \/ LPopBody(t)
    \/ RPopBody(t)
    \/ BPopPoll(t)
    \/ BPopRead(t)
    \/ BPopCheck(t)
    \/ BPopLock(t)
    \/ BPopBody(t)

SpecPopFair ==
    /\ Init
    /\ [][NextPop]_vars
    /\ \A t \in Threads : SF_vars(PopStep(t))
    /\ WF_vars(Tick)

\* C25: a BLPOP / BRPOP call with timeoutSec > 0 keeps the deadline set at its
\* entry until it returns, and, its deadline lying within the span of the
\* clock, it eventually returns without error, whatever pushes and pops the
\* other goroutine runs.
BPopReturns ==
    /\ [][\A t \in Threads :
            (pc[t] \in BPopPCs /\ pc'[t] \in BPopPCs)
                => loc'[t].deadline = loc[t].deadline]_vars
    /\ \A t \in Threads :
        (pc[t] \in BPopPCs /\ call[t].timeout > 0 /\ loc[t].deadline < MaxTime)
            ~> (pc[t] = "idle" /\ res[t].op \in {"BLPOP", "BRPOP"} /\ res[t].err = "")

\* C25 witness: a BLPOP with timeoutSec > 0 is at its deadline test past its
\* deadline, having found too few elements, after a pop of the other goroutine
\* took elements of the list.
BPopReturnsWitness ==
    \E t, u \in Threads :
        /\ pc[t] = "bpop_check" /\ call[t].op = "BLPOP" /\ call[t].timeout > 0
        /\ now > loc[t].deadline
        /\ res[u].op = "RPOP" /\ res[u].l # <<>>

(***************************************************************************)
(* Properties of the pops with a count that is not positive (SpecPop).     *)
(***************************************************************************)
\* C26: LPOP or RPOP with count <= 0 on a List that is not empty returns every
\* element of the list, in stored order, and deletes the key.
PopNonPositiveTakesAll ==
    [][\A t \in Threads :
        LET list == ListAt(data[call[t].db], call[t].key) IN
        (/\ pc[t] \in {"lpop_body", "rpop_body"}
         /\ pc'[t] = "idle"
         /\ call[t].count <= 0
         /\ Len(list) > 0)
            => /\ res'[t].l = list
               /\ ~Has(data'[call[t].db], call[t].key)
      ]_vars

(***************************************************************************)
(* The streams among values of the other types (SpecTyped): Set, RPush,    *)
(* XAdd and XRange on one key of one database.                              *)
(***************************************************************************)
NextTyped ==
    \/ \E t \in Threads : calls < MaxTypedCalls /\ CallSet(t, {0})
    \/ \E t \in Threads : SetBody(t)
    \/ \E t \in Threads : calls < MaxTypedCalls /\ CallRPush(t, {0})
    \/ \E t \in Threads : RPushBody(t)
    \/ \E t \in Threads : calls < MaxTypedCalls /\ CallXAdd(t, {0})
    \/ \E t \in Threads : XAddRead(t)
    \/ \E t \in Threads : XAddID(t)
    \/ \E t \in Threads : XAddReread(t)
    \/ \E t \in Threads : XAddStore(t)
    \/ \E t \in Threads : XAddRace(t)
    \/ \E t \in Threads : calls < MaxTypedCalls /\ CallXRange(t, {0})
    \/ \E t \in Threads : XRangeRead(t)

SpecTyped == Init /\ [][NextTyped]_vars

\* C27: a step of XAdd on a key that holds a String or a List leaves the value
\* of the key as it is, and the call returns an error.
XAddKeepsOtherTypes ==
    [][\A t \in Threads :
        LET m == data[call[t].db]
            k == call[t].key IN
        (/\ pc[t] \in XAddPCs
         /\ pc'[t] # pc[t]
         /\ Has(m, k)
         /\ m[k].Type \in {TypeString, TypeList})
            => /\ data' = data
               /\ pc'[t] = "idle" => res'[t].err # ""
      ]_vars

(***************************************************************************)
(* Properties of the ids given to XAdd (SpecStream).                       *)
(***************************************************************************)
\* C28: a step of XAdd with a given id that is not two decimal integers joined
\* by one "-" changes no map, and the call returns an error.
XAddMalformedIDFails ==
    [][\A t \in Threads :
        (/\ pc[t] \in XAddPCs
         /\ pc'[t] # pc[t]
         /\ call[t].id # <<>>
         /\ ~IDOk(call[t].id))
            => /\ data' = data
               /\ pc'[t] = "idle" => res'[t].err # ""
      ]_vars

(***************************************************************************)
(* Properties of XRange (SpecStream).                                      *)
(***************************************************************************)
\* the entries of streams whose millis lie between start and end, "-" as start
\* being open below and "+" as end open above
XRangeExpected(streams, start, end) ==
    LET In(st) ==
            /\ start = <<"-">> \/ IDMillis(st.ID) >= Atoi(start).val
            /\ end = <<"+">> \/ IDMillis(st.ID) <= Atoi(end).val
        found == SelectSeq(streams, In) IN
    [i \in 1 .. Len(found) |-> [ID |-> found[i].ID, Entries |-> found[i].Entries]]

\* C29: on a key holding stream entries with well-formed ids, XRange with start
\* "-" or a number and end "+" or a number returns, in stored order, exactly the
\* entries whose millis lie within the bounds.
XRangeSelects ==
    [][\A t \in Threads :
        LET m == data[call[t].db]
            k == call[t].key
            streams == Lookup(m, k).Streams IN
        (/\ pc[t] = "xrange_read"
         /\ pc'[t] = "idle"
         /\ Has(m, k)
         /\ Len(streams) > 0
         /\ \A i \in 1 .. Len(streams) : IDOk(streams[i].ID)
         /\ call[t].from = <<"-">> \/ Atoi(call[t].from).ok
         /\ call[t].to = <<"+">> \/ Atoi(call[t].to).ok)
            => /\ res'[t].err = ""
               /\ res'[t].l = XRangeExpected(streams, call[t].from, call[t].to)
      ]_vars

(***************************************************************************)
(* Properties of XRange on a key without a stream (SpecTyped).             *)
(***************************************************************************)
\* C30: XRange on an absent key fails with "not exists", on a key holding a
\* String or a List with "is not stream", and in both cases changes no map.
XRangeFailsWithoutStream ==
    [][\A t \in Threads :
        LET m == data[call[t].db]
            k == call[t].key IN
        (pc[t] = "xrange_read" /\ pc'[t] = "idle")
            => /\ ~Has(m, k) => (res'[t].err = "not exists" /\ data' = data)
               /\ (Has(m, k) /\ m[k].Type \in {TypeString, TypeList})
                    => (res'[t].err = "is not stream" /\ data' = data)
      ]_vars

(***************************************************************************)
(* The expiry of a key under its writes (SpecExp): Set, RPush, LPush and   *)
(* XAdd on one key of one database, under a running clock.                 *)
(***************************************************************************)
NextExp ==
    \/ \E t \in Threads : calls < MaxExpCalls /\ CallSet(t, {0})
    \/ \E t \in Threads : SetBody(t)
    \/ \E t \in Threads : calls < MaxExpCalls /\ CallRPush(t, {0})
    \/ \E t \in Threads : RPushBody(t)
    \/ \E t \in Threads : calls < MaxExpCalls /\ CallLPush(t, {0})
    \/ \E t \in Threads : LPushBody(t)
    \/ \E t \in Threads : calls < MaxExpCalls /\ CallXAdd(t, {0})
    \/ \E t \in Threads : XAddRead(t)
    \/ \E t \in Threads : XAddID(t)
    \/ \E t \in Threads : XAddReread(t)
    \/ \E t \in Threads : XAddStore(t)
    \/ \E t \in Threads : XAddRace(t)
    \/ Tick

SpecExp == Init /\ [][NextExp]_vars

\* C31: the expiry of a key changes only by a write that replaces it outright:
\* a Set leaves the time of its store plus ttl when ttl > 0 and no expiry
\* otherwise, whatever the key held; a push or an XAdd that re-initialises the
\* key leaves no expiry; and every step after which a key has another expiry
\* than before is a store of Set or leaves the key without expiry.
ExpiryReplacedWholesale ==
    [][/\ \A t \in Threads :
            LET m == data[call[t].db]
                k == call[t].key
                after == Lookup(data'[call[t].db], k) IN
            /\ (pc[t] = "set_body" /\ pc'[t] = "idle")
                => after.Expiry = (IF call[t].exp > 0 THEN now + call[t].exp ELSE ZeroTime)
            /\ (pc[t] \in {"rpush_body", "lpush_body"} /\ pc'[t] = "idle" /\ ~IsList(m, k))
                => after.Expiry = ZeroTime
            /\ (pc[t] = "xadd_id" /\ pc'[t] = "xadd_reread" /\ XAddInits(t))
                => after.Expiry = ZeroTime
       /\ \A k \in Keys :
            (Has(data'[0], k) /\ (~Has(data[0], k) \/ data'[0][k].Expiry # data[0][k].Expiry))
                => \/ \E t \in Threads :
                        pc[t] = "set_body" /\ pc'[t] = "idle" /\ call[t].key = k
                   \/ data'[0][k].Expiry = ZeroTime
      ]_vars

(***************************************************************************)
(* Properties of the removal of expired keys (SpecKV).                     *)
(***************************************************************************)
\* C32: a key is removed on account of expiry only when the expiry of the entry
\* it holds at that moment has passed: the delete inside Get never removes an
\* entry without expiry or with an expiry still ahead.
ExpiryRemovesOnlyExpired ==
    [][\A t \in Threads :
        LET m == data[call[t].db]
            k == call[t].key IN
        (/\ pc[t] = "get_del"
         /\ pc'[t] = "idle"
         /\ Has(m, k)
         /\ ~Has(data'[call[t].db], k))
            => (m[k].Expiry # ZeroTime /\ now > m[k].Expiry)
      ]_vars

(***************************************************************************)
(* Concurrent pushes (SpecPush): RPush and LPush of two goroutines on one  *)
(* key, nothing else.                                                       *)
(***************************************************************************)
NextPush ==
    \/ \E t \in Threads : calls < MaxPushCalls /\ CallRPush(t, {0})
    \/ \E t \in Threads : RPushBody(t)
    \/ \E t \in Threads : calls < MaxPushCalls /\ CallLPush(t, {0})
    \/ \E t \in Threads : LPushBody(t)

SpecPush == Init /\ [][NextPush]_vars

OnePayloadPerKind ==
    \A d \in DBs, k \in Keys :
        Has(data[d], k) =>
            LET v == data[d][k] IN
            /\ v.Type \in {TypeString, TypeList, TypeStream}
            /\ v.Type = TypeString => (v.List = <<>> /\ v.Streams = <<>>)
            /\ v.Type = TypeList => (v.String = "" /\ v.Streams = <<>>)
            /\ v.Type = TypeStream => (v.String = "" /\ v.List = <<>>)

(***************************************************************************)
(* Properties of the list operations on a key of another kind (SpecAll).   *)
(***************************************************************************)
\* C35: RPush or LPush on a key holding a String or a Stream returns no error
\* and len(items), and leaves a List of exactly the items pushed, nothing of
\* the old value; RLen on a key that is absent or holds no List returns 0 and
\* changes no map.
PushReplacesOtherKinds ==
    [][\A t \in Threads :
        LET c == call[t]
            m == data[c.db] IN
        /\ (/\ pc[t] \in {"rpush_body", "lpush_body"}
            /\ pc'[t] = "idle"
            /\ Has(m, c.key)
            /\ m[c.key].Type \in {TypeString, TypeStream})
                => /\ data'[c.db][c.key] =
                        [Type |-> TypeList, String |-> "", List |-> c.items,
                         Streams |-> <<>>, Expiry |-> ZeroTime]
                   /\ res'[t].n = Len(c.items)
                   /\ res'[t].err = ""
        /\ (/\ pc[t] = "rlen_read"
            /\ pc'[t] = "idle"
            /\ ~(Has(m, c.key) /\ m[c.key].Type = TypeList))
                => (res'[t].n = 0 /\ res'[t].err = "" /\ data' = data)
      ]_vars

\* C35 witness: a Set of k has returned, and after it an LPush of [x,y] on k,
\* returning 2: k holds the List [x,y].
PushReplacesWitness ==
    \E t, u \in Threads :
        /\ pc[t] = "idle" /\ res[t].op = "Set" /\ res[t].err = ""
        /\ pc[u] = "idle" /\ res[u].op = "LPush" /\ res[u].n = 2
        /\ Has(data[0], "k")
        /\ data[0]["k"].Type = TypeList
        /\ data[0]["k"].List = <<"x", "y">>
        /\ hist.fresh[0]["k"] = None

(***************************************************************************)
(* Properties of TypeCmd (SpecAll).                                        *)
(***************************************************************************)
\* C36: TypeCmd returns the kind stored at a key that is present, whether or
\* not its expiry has passed, fails with "key does not exists" for a key that
\* is absent, and changes no map.
TypeCmdReportsKind ==
    [][\A t \in Threads :
        LET c == call[t]
            m == data[c.db] IN
        (pc[t] = "type_read" /\ pc'[t] = "idle")
            => /\ data' = data
               /\ Has(m, c.key)
                    => (res'[t].err = "" /\ ~res'[t].nil /\ res'[t].n = m[c.key].Type)
               /\ ~Has(m, c.key)
                    => (res'[t].err = "key does not exists" /\ res'[t].nil)
      ]_vars

\* C36 witness: TypeCmd has returned the kind String for k while k holds a
\* String whose expiry has passed.
TypeCmdWitness ==
    \E t \in Threads :
        /\ res[t].op = "TypeCmd" /\ res[t].err = "" /\ res[t].n = TypeString
        /\ Has(data[0], "k")
        /\ data[0]["k"].Type = TypeString
        /\ data[0]["k"].Expiry # ZeroTime
        /\ now > data[0]["k"].Expiry

(***************************************************************************)
(* The server's reply to DEL (SpecKV).  handleDel passes the key to        *)
(* keyStorage.Del on database 0 and wraps the count returned; handleConn   *)
(* writes the value with resp.WriteValue.  Bytes are sequences of          *)
(* characters, "\r\n" being one element.                                   *)
(***************************************************************************)
CRLF == <<"\r\n">>

\* resp.Value{Typ: "bulk", Str: count}, count := strconv.Itoa(keyStorage.Del(..))
handleDel(n) == [Typ |-> "bulk", Str |-> Itoa(n), Num |-> 0, Bulk |-> <<>>]

\* resp.WriteValue: the bytes written for v (an array is never written here)
WriteValue(v) ==
    CASE v.Typ = "string" -> <<"+">> \o v.Str \o CRLF
      [] v.Typ = "error" -> <<"-">> \o v.Str \o CRLF
      [] v.Typ = "integer" -> <<":">> \o Itoa(v.Num) \o CRLF
      [] v.Typ = "bulk" ->
            IF v.Bulk = <<>>
            THEN <<"$", "-", "1">> \o CRLF
            ELSE <<"$">> \o Itoa(Len(v.Bulk)) \o CRLF \o v.Bulk \o CRLF
      [] OTHER -> <<"$", "-", "1">> \o CRLF

\* C37: the reply written for a DEL carries the count Del returned, as an
\* integer, a simple string or a bulk string, and is never the null reply.
DelReplyCarriesCount ==
    \A t \in Threads :
        (res[t].op = "Del" /\ res[t].err = "")
            => LET n == Itoa(res[t].n)
                   w == WriteValue(handleDel(res[t].n)) IN
               /\ w # <<"$", "-", "1">> \o CRLF
               /\ w \in {<<":">> \o n \o CRLF,
                         <<"+">> \o n \o CRLF,
                         <<"$">> \o Itoa(Len(n)) \o CRLF \o n \o CRLF}

====
